---- MODULE Spec2Model ----
\* Model of lunavl/sdk/estimator_collections.py: FaceEstimatorsCollection, a
\* registry of lazily created face estimators bound to one face engine.
EXTENDS Integers, Sequences, FiniteSets, TLC

VARIABLES constructed, faceEngine, attr, nextId, ops, lastOp, prevOp

vars == <<constructed, faceEngine, attr, nextId, ops, lastOp, prevOp>>

\* ---------------------------------------------------------------- bounds
\* Requests made of one collection along one behaviour: the entries of the
\* start-list given to the constructor and the operations invoked afterwards.
MaxOps == 2

\* ---------------------------------------------------------------- strings
\* Python strings are modelled as sequences of characters so that slicing and
\* lower() are computed as the code computes them.
UpperChars ==
    <<"A","B","C","D","E","F","G","H","I","J","K","L","M","N","O","P","Q","R","S","T","U","V","W","X","Y","Z">>

LowerChars ==
    <<"a","b","c","d","e","f","g","h","i","j","k","l","m","n","o","p","q","r","s","t","u","v","w","x","y","z">>

\* str.lower() on one character.
LowerChar(c) ==
    IF \E i \in 1..Len(UpperChars) : UpperChars[i] = c
    THEN LowerChars[CHOOSE i \in 1..Len(UpperChars) : UpperChars[i] = c]
    ELSE c

\* str.lower()
Lower(s) == [i \in 1..Len(s) |-> LowerChar(s[i])]

\* The literal "Estimator" of the slices in both name resolutions.
EstimatorSuffix == <<"E","s","t","i","m","a","t","o","r">>

\* s[1 : -len("Estimator")]: a negative stop counts from the end and is clamped
\* at 0, and a stop not beyond the start gives the empty string.
SliceName(s) == SubSeq(s, 2, Len(s) - Len(EstimatorSuffix))

\* ---------------------------------------------------------------- the enum
\* Members of FaceEstimator in definition order (the order of iteration).
FaceEstimator ==
    <<"HeadPose", "Eye", "Emotions", "BasicAttributes", "GazeDirection",
      "MouthState", "WarpQuality", "AGS", "Descriptor">>

Tags == {FaceEstimator[i] : i \in 1..Len(FaceEstimator)}

\* Arguments that are not members of FaceEstimator: an object without a name
\* attribute (an int, None, a str) and members of some other Enum, one of
\* which happens to be called Eye.
NoNameTag == "int:10"
ForeignTag == "Other.Body"
ForeignEyeTag == "Other.Eye"
BadTags == {NoNameTag, ForeignTag, ForeignEyeTag}

\* Whether the argument has a .name attribute.
HasName(t) == t # NoNameTag

\* estimator.name as a character string.
EnumName(t) ==
    CASE t = "HeadPose" -> <<"H","e","a","d","P","o","s","e">>
      [] t = "Eye" -> <<"E","y","e">>
      [] t = "Emotions" -> <<"E","m","o","t","i","o","n","s">>
      [] t = "BasicAttributes" -> <<"B","a","s","i","c","A","t","t","r","i","b","u","t","e","s">>
      [] t = "GazeDirection" -> <<"G","a","z","e","D","i","r","e","c","t","i","o","n">>
      [] t = "MouthState" -> <<"M","o","u","t","h","S","t","a","t","e">>
      [] t = "WarpQuality" -> <<"W","a","r","p","Q","u","a","l","i","t","y">>
      [] t = "AGS" -> <<"A","G","S">>
      [] t = "Descriptor" -> <<"D","e","s","c","r","i","p","t","o","r">>
      [] t = ForeignTag -> <<"B","o","d","y">>
      [] t = ForeignEyeTag -> <<"E","y","e">>

\* ---------------------------------------------------------------- the slots
\* __slots__ in declaration order (the order of iteration).
Slots ==
    <<"_headPoseEstimator", "_eyeEstimator", "_gazeDirectionEstimator",
      "_mouthStateEstimator", "_warpQualityEstimator",
      "_basicAttributesEstimator", "_emotionsEstimator", "_faceEngine",
      "_AGSEstimator", "warper", "_descriptorEstimator">>

\* The attributes that hold handles: every slot but the engine reference,
\* which is the variable faceEngine.
AttrNames == {Slots[i] : i \in 1..Len(Slots)} \ {"_faceEngine"}

\* A slot name as a character string.
SlotChars(s) ==
    CASE s = "_headPoseEstimator" -> <<"_","h","e","a","d","P","o","s","e","E","s","t","i","m","a","t","o","r">>
      [] s = "_eyeEstimator" -> <<"_","e","y","e","E","s","t","i","m","a","t","o","r">>
      [] s = "_gazeDirectionEstimator" -> <<"_","g","a","z","e","D","i","r","e","c","t","i","o","n","E","s","t","i","m","a","t","o","r">>
      [] s = "_mouthStateEstimator" -> <<"_","m","o","u","t","h","S","t","a","t","e","E","s","t","i","m","a","t","o","r">>
      [] s = "_warpQualityEstimator" -> <<"_","w","a","r","p","Q","u","a","l","i","t","y","E","s","t","i","m","a","t","o","r">>
      [] s = "_basicAttributesEstimator" -> <<"_","b","a","s","i","c","A","t","t","r","i","b","u","t","e","s","E","s","t","i","m","a","t","o","r">>
      [] s = "_emotionsEstimator" -> <<"_","e","m","o","t","i","o","n","s","E","s","t","i","m","a","t","o","r">>
      [] s = "_faceEngine" -> <<"_","f","a","c","e","E","n","g","i","n","e">>
      [] s = "_AGSEstimator" -> <<"_","A","G","S","E","s","t","i","m","a","t","o","r">>
      [] s = "warper" -> <<"w","a","r","p","e","r">>
      [] s = "_descriptorEstimator" -> <<"_","d","e","s","c","r","i","p","t","o","r","E","s","t","i","m","a","t","o","r">>

\* ---------------------------------------------------------------- engines
\* The engine made by VLFaceEngine() when the constructor is given none.
DefaultEngine == "D"
\* Engines: the default one, one supplied by the caller, and one supplied by
\* the caller whose factories may raise.
Engines == {"D", "A", "F"}
Flaky == {"F"}

NoEngine == "-"

\* Handles are opaque; the model keeps who made them, by which factory, and a
\* serial number that tells two products of one factory apart.
None == [eng |-> "None", fac |-> "None", id |-> 0]

Handle(e, f, n) == [eng |-> e, fac |-> f, id |-> n]

\* Estimators the caller builds itself and installs through a property setter.
CallerHandles == {[eng |-> "caller", fac |-> "custom", id |-> 0]}

\* The exceptions the operations end with.
NoExc == "none"
ValueError == "ValueError"
AttributeError == "AttributeError"
EngineError == "EngineError"

\* ---------------------------------------------------------------- name resolution
\* What a resolution gives when it raises instead of returning.
RaisedValueError == "<ValueError>"
RaisedAttributeError == "<AttributeError>"

MinOf(S) == CHOOSE i \in S : \A j \in S : i <= j

\* The resolution with a silent fallback: the last member instead of ValueError.
GetEstimatorByAttributeNameFallback(estimatorAttributeName) ==
    LET hits == {i \in 1..Len(FaceEstimator) :
                    Lower(EnumName(FaceEstimator[i]))
                        = SliceName(SlotChars(estimatorAttributeName))}
    IN  IF hits = {} THEN FaceEstimator[Len(FaceEstimator)]
        ELSE FaceEstimator[MinOf(hits)]

\* _getEstimatorByAttributeName: the first member of FaceEstimator whose
\* lowered name equals the slice of the attribute name; ValueError if none.
GetEstimatorByAttributeName(estimatorAttributeName) ==
    LET hits == {i \in 1..Len(FaceEstimator) :
                    Lower(EnumName(FaceEstimator[i]))
                        = SliceName(SlotChars(estimatorAttributeName))}
    IN  IF hits = {} THEN RaisedValueError ELSE FaceEstimator[MinOf(hits)]

\* _getAttributeNameByEstimator: the first slot other than _faceEngine whose
\* sliced name equals the lowered name of the estimator; ValueError if none,
\* AttributeError if the argument has no name.
GetAttributeNameByEstimator(estimator) ==
    IF ~HasName(estimator) THEN RaisedAttributeError
    ELSE LET hits == {i \in 1..Len(Slots) :
                        /\ Slots[i] # "_faceEngine"
                        /\ Lower(EnumName(estimator)) = SliceName(SlotChars(Slots[i]))}
         IN  IF hits = {} THEN RaisedValueError ELSE Slots[MinOf(hits)]

\* Both resolutions are static: tabulated once over their arguments.
EstimatorByAttributeName ==
    [a \in AttrNames |-> GetEstimatorByAttributeName(a)]

AttributeNameByEstimator ==
    [t \in Tags \cup BadTags |-> GetAttributeNameByEstimator(t)]

\* ---------------------------------------------------------------- factories
\* An operation in progress: the attributes, the next serial number, the
\* factory calls made so far and the exception raised, if any.
Start(a, n) == [attr |-> a, nextId |-> n, calls |-> <<>>, exc |-> NoExc]

\* A creation that clears the attribute before it calls the factory, so that a
\* factory that raises leaves None behind.
CreateIntoClearing(st, eng, fac, a, failAt) ==
    IF Len(st.calls) + 1 = failAt
    THEN [st EXCEPT !.attr[a] = None,
                    !.calls = Append(@, [eng |-> eng, fac |-> fac, ok |-> FALSE]),
                    !.exc = EngineError]
    ELSE [st EXCEPT !.attr[a] = Handle(eng, fac, st.nextId),
                    !.nextId = @ + 1,
                    !.calls = Append(@, [eng |-> eng, fac |-> fac, ok |-> TRUE])]

\* self.<a> = self._faceEngine.<fac>(): the failAt-th factory call of the
\* operation raises and assigns nothing.
CreateInto(st, eng, fac, a, failAt) ==
    IF Len(st.calls) + 1 = failAt
    THEN [st EXCEPT !.calls = Append(@, [eng |-> eng, fac |-> fac, ok |-> FALSE]),
                    !.exc = EngineError]
    ELSE [st EXCEPT !.attr[a] = Handle(eng, fac, st.nextId),
                    !.nextId = @ + 1,
                    !.calls = Append(@, [eng |-> eng, fac |-> fac, ok |-> TRUE])]

\* initEstimator with the Eye branch assigning the attribute of the branch below.
InitBranchCrossed(estimator) ==
    CASE estimator = "BasicAttributes" ->
            [attr |-> "_basicAttributesEstimator", fac |-> "createBasicAttributesEstimator"]
      [] estimator = "Eye" ->
            [attr |-> "_emotionsEstimator", fac |-> "createEyeEstimator"]
      [] estimator = "Emotions" ->
            [attr |-> "_emotionsEstimator", fac |-> "createEmotionEstimator"]
      [] estimator = "GazeDirection" ->
            [attr |-> "_gazeDirectionEstimator", fac |-> "createGazeEstimator"]
      [] estimator = "MouthState" ->
            [attr |-> "_mouthStateEstimator", fac |-> "createMouthEstimator"]
      [] estimator = "WarpQuality" ->
            [attr |-> "_warpQualityEstimator", fac |-> "createWarpQualityEstimator"]
      [] estimator = "HeadPose" ->
            [attr |-> "_headPoseEstimator", fac |-> "createHeadPoseEstimator"]
      [] estimator = "AGS" ->
            [attr |-> "_AGSEstimator", fac |-> "createAGSEstimator"]
      [] estimator = "Descriptor" ->
            [attr |-> "_descriptorEstimator", fac |-> "createFaceDescriptorEstimator"]
      [] OTHER -> [attr |-> "", fac |-> ""]

\* The branches of initEstimator: the attribute assigned and the factory used.
InitBranch(estimator) ==
    CASE estimator = "BasicAttributes" ->
            [attr |-> "_basicAttributesEstimator", fac |-> "createBasicAttributesEstimator"]
      [] estimator = "Eye" ->
            [attr |-> "_eyeEstimator", fac |-> "createEyeEstimator"]
      [] estimator = "Emotions" ->
            [attr |-> "_emotionsEstimator", fac |-> "createEmotionEstimator"]
      [] estimator = "GazeDirection" ->
            [attr |-> "_gazeDirectionEstimator", fac |-> "createGazeEstimator"]
      [] estimator = "MouthState" ->
            [attr |-> "_mouthStateEstimator", fac |-> "createMouthEstimator"]
      [] estimator = "WarpQuality" ->
            [attr |-> "_warpQualityEstimator", fac |-> "createWarpQualityEstimator"]
      [] estimator = "HeadPose" ->
            [attr |-> "_headPoseEstimator", fac |-> "createHeadPoseEstimator"]
      [] estimator = "AGS" ->
            [attr |-> "_AGSEstimator", fac |-> "createAGSEstimator"]
      [] estimator = "Descriptor" ->
            [attr |-> "_descriptorEstimator", fac |-> "createFaceDescriptorEstimator"]
      [] OTHER -> [attr |-> "", fac |-> ""]

\* initEstimator that keeps an estimator already there, as the getters do.
InitEstimatorCached(st, eng, estimator, failAt) ==
    LET b == InitBranch(estimator)
    IN  IF b.attr = "" THEN [st EXCEPT !.exc = ValueError]
        ELSE IF st.attr[b.attr] # None THEN st
        ELSE CreateInto(st, eng, b.fac, b.attr, failAt)

\* initEstimator: the else branch raises ValueError.
InitEstimator(st, eng, estimator, failAt) ==
    LET b == InitBranch(estimator)
    IN  IF b.attr = "" THEN [st EXCEPT !.exc = ValueError]
        ELSE CreateInto(st, eng, b.fac, b.attr, failAt)

\* The nine estimator properties: the attribute each getter reads and fills,
\* and the factory it fills it with.
Property(tag) ==
    CASE tag = "Descriptor" ->
            [attr |-> "_descriptorEstimator", fac |-> "createFaceDescriptorEstimator"]
      [] tag = "HeadPose" ->
            [attr |-> "_headPoseEstimator", fac |-> "createHeadPoseEstimator"]
      [] tag = "AGS" ->
            [attr |-> "_AGSEstimator", fac |-> "createAGSEstimator"]
      [] tag = "BasicAttributes" ->
            [attr |-> "_basicAttributesEstimator", fac |-> "createBasicAttributesEstimator"]
      [] tag = "Eye" ->
            [attr |-> "_eyeEstimator", fac |-> "createEyeEstimator"]
      [] tag = "Emotions" ->
            [attr |-> "_emotionsEstimator", fac |-> "createEmotionEstimator"]
      [] tag = "GazeDirection" ->
            [attr |-> "_gazeDirectionEstimator", fac |-> "createGazeEstimator"]
      [] tag = "MouthState" ->
            [attr |-> "_mouthStateEstimator", fac |-> "createMouthEstimator"]
      [] tag = "WarpQuality" ->
            [attr |-> "_warpQualityEstimator", fac |-> "createWarpQualityEstimator"]

\* The properties that have a setter: every one but descriptorEstimator.
HasSetter(tag) ==
    tag \in {"HeadPose", "AGS", "BasicAttributes", "Eye", "Emotions",
             "GazeDirection", "MouthState", "WarpQuality"}

\* A getter without the None test: a new estimator at every access.
PropertyGetUncached(st, eng, tag, failAt) ==
    CreateInto(st, eng, Property(tag).fac, Property(tag).attr, failAt)

\* A property getter: fill the attribute if it is None, then return it.
PropertyGet(st, eng, tag, failAt) ==
    IF st.attr[Property(tag).attr] = None
    THEN CreateInto(st, eng, Property(tag).fac, Property(tag).attr, failAt)
    ELSE st

\* A property setter; assigning to a property without one raises.
PropertySet(st, tag, newEstimator) ==
    IF HasSetter(tag)
    THEN [st EXCEPT !.attr[Property(tag).attr] = newEstimator]
    ELSE [st EXCEPT !.exc = AttributeError]

\* removeEstimator: resolve the attribute name, then set it to None.
RemoveEstimator(st, estimator) ==
    LET estimatorName == AttributeNameByEstimator[estimator]
    IN  CASE estimatorName = RaisedAttributeError -> [st EXCEPT !.exc = AttributeError]
          [] estimatorName = RaisedValueError -> [st EXCEPT !.exc = ValueError]
          [] OTHER -> [st EXCEPT !.attr[estimatorName] = None]

\* The loop of the faceEngine setter over __slots__ from index i on: every
\* attribute that is not None is resolved to its estimator and initialized
\* again; an exception ends the loop.
RECURSIVE ReinitFrom(_, _, _, _)
ReinitFrom(st, eng, i, failAt) ==
    IF i > Len(Slots) \/ st.exc # NoExc THEN st
    ELSE IF Slots[i] = "_faceEngine" THEN ReinitFrom(st, eng, i + 1, failAt)
    ELSE IF st.attr[Slots[i]] # None
         THEN LET estimator == EstimatorByAttributeName[Slots[i]]
              IN  IF estimator = RaisedValueError
                  THEN [st EXCEPT !.exc = ValueError]
                  ELSE ReinitFrom(InitEstimator(st, eng, estimator, failAt),
                                  eng, i + 1, failAt)
         ELSE ReinitFrom(st, eng, i + 1, failAt)

\* The setter that drops the old warper before the loop and makes the new one
\* after it.
SetFaceEngineDropsWarper(st, newFaceEngine, failAt) ==
    LET looped == ReinitFrom([st EXCEPT !.attr["warper"] = None], newFaceEngine, 1, failAt)
    IN  IF looped.exc # NoExc THEN looped
        ELSE CreateInto(looped, newFaceEngine, "createFaceWarper", "warper", failAt)

\* The faceEngine setter after the assignment of the engine: the loop, then
\* the warper is made again.
SetFaceEngine(st, newFaceEngine, failAt) ==
    LET looped == ReinitFrom(st, newFaceEngine, 1, failAt)
    IN  IF looped.exc # NoExc THEN looped
        ELSE CreateInto(looped, newFaceEngine, "createFaceWarper", "warper", failAt)

\* for estimator in set(startEstimators): self.initEstimator(estimator), the
\* set iterated in the given order; an exception ends the loop.
RECURSIVE InitAll(_, _, _, _, _)
InitAll(st, eng, order, i, failAt) ==
    IF i > Len(order) \/ st.exc # NoExc THEN st
    ELSE InitAll(InitEstimator(st, eng, order[i], failAt), eng, order, i + 1, failAt)

\* __init__ that initializes every estimator at once, whatever the start-list.
InitCollectionEager(n, eng, order, failAt) ==
    LET blank == Start([a \in AttrNames |-> None], n)
        warped == CreateInto(blank, eng, "createFaceWarper", "warper", failAt)
    IN  IF warped.exc # NoExc THEN warped
        ELSE InitAll(warped, eng, FaceEstimator, 1, failAt)

\* __init__ after the engine is chosen: every estimator attribute None, the
\* warper made, then the start estimators.
InitCollection(n, eng, order, failAt) ==
    LET blank == Start([a \in AttrNames |-> None], n)
        warped == CreateInto(blank, eng, "createFaceWarper", "warper", failAt)
    IN  IF warped.exc # NoExc THEN warped
        ELSE InitAll(warped, eng, order, 1, failAt)

\* ---------------------------------------------------------------- the state machine
\* What an operation leaves in lastOp: its name and arguments, the handle it
\* returned, the exception it raised, the factory calls it made, and the
\* attribute of its tag as it was before the operation.
OpRecord(op, tag, eng, arg, start, ret, before, st) ==
    [op |-> op, tag |-> tag, eng |-> eng, arg |-> arg, start |-> start,
     ret |-> ret, before |-> before, exc |-> st.exc, calls |-> st.calls]

NoOp == [op |-> "none", tag |-> "-", eng |-> NoEngine, arg |-> None,
         start |-> <<>>, ret |-> None, before |-> None, exc |-> NoExc,
         calls |-> <<>>]

\* The attribute that holds the estimator of a tag, None for other arguments.
Before(tag) == IF tag \in Tags THEN attr[Property(tag).attr] ELSE None

\* The index of the factory call that raises within one operation that makes
\* at most n of them: 0 for none, and only a flaky engine raises.
FailPoints(eng, n) == IF eng \in Flaky THEN 0..n ELSE {0}

\* The start-lists given to the constructor (None is the empty list here:
\* both are falsy).
StartLists == UNION {[1..n -> Tags \cup BadTags] : n \in 0..MaxOps}

\* The start-list iterated as given, duplicates included.
OrdersOfList(start) == {start}

\* The orders in which set(startEstimators) may be iterated.
Orders(start) ==
    LET S == {start[i] : i \in 1..Len(start)}
    IN  {o \in [1..Cardinality(S) -> S] : \A i, j \in 1..Cardinality(S) : o[i] = o[j] => i = j}

Init ==
    /\ constructed = "no"
    /\ faceEngine = NoEngine
    /\ attr = [a \in AttrNames |-> None]
    /\ nextId = 1
    /\ ops = 0
    /\ lastOp = NoOp
    /\ prevOp = NoOp

\* FaceEstimatorsCollection(startEstimators, faceEngine)
Construct(startEstimators, engArg, order, failAt) ==
    /\ constructed = "no"
    /\ LET eng == IF engArg = NoEngine THEN DefaultEngine ELSE engArg
           st == InitCollection(nextId, eng, order, failAt)
       IN  /\ failAt \in FailPoints(eng, 1 + Len(order))
           /\ ops' = Len(startEstimators)
           /\ constructed' = IF st.exc = NoExc THEN "yes" ELSE "failed"
           /\ faceEngine' = eng
           /\ attr' = st.attr
           /\ nextId' = st.nextId
           /\ lastOp' = OpRecord("construct", "-", engArg, None, startEstimators, None, None, st)
           /\ prevOp' = lastOp

\* collection.<tag>Estimator
Get(tag, failAt) ==
    /\ constructed = "yes"
    /\ ops < MaxOps
    /\ failAt \in FailPoints(faceEngine, 1)
    /\ LET st == PropertyGet(Start(attr, nextId), faceEngine, tag, failAt)
       IN  /\ ops' = ops + 1
           /\ attr' = st.attr
           /\ nextId' = st.nextId
           /\ lastOp' = OpRecord("get", tag, NoEngine, None, <<>>,
                                 IF st.exc = NoExc THEN st.attr[Property(tag).attr] ELSE None,
                                 Before(tag), st)
           /\ prevOp' = lastOp
           /\ UNCHANGED <<constructed, faceEngine>>

\* collection.initEstimator(estimator)
Initialize(estimator, failAt) ==
    /\ constructed = "yes"
    /\ ops < MaxOps
    /\ failAt \in FailPoints(faceEngine, 1)
    /\ LET st == InitEstimator(Start(attr, nextId), faceEngine, estimator, failAt)
       IN  /\ ops' = ops + 1
           /\ attr' = st.attr
           /\ nextId' = st.nextId
           /\ lastOp' = OpRecord("init", estimator, NoEngine, None, <<>>, None,
                                 Before(estimator), st)
           /\ prevOp' = lastOp
           /\ UNCHANGED <<constructed, faceEngine>>

\* collection.<tag>Estimator = newEstimator
Set(tag, newEstimator) ==
    /\ constructed = "yes"
    /\ ops < MaxOps
    /\ ops' = ops + 1
    /\ LET st == PropertySet(Start(attr, nextId), tag, newEstimator)
       IN  /\ attr' = st.attr
           /\ lastOp' = OpRecord("set", tag, NoEngine, newEstimator, <<>>, None,
                                 Before(tag), st)
           /\ prevOp' = lastOp
           /\ UNCHANGED <<constructed, faceEngine, nextId>>

\* collection.removeEstimator(estimator)
Remove(estimator) ==
    /\ constructed = "yes"
    /\ ops < MaxOps
    /\ ops' = ops + 1
    /\ LET st == RemoveEstimator(Start(attr, nextId), estimator)
       IN  /\ attr' = st.attr
           /\ lastOp' = OpRecord("remove", estimator, NoEngine, None, <<>>, None,
                                 Before(estimator), st)
           /\ prevOp' = lastOp
           /\ UNCHANGED <<constructed, faceEngine, nextId>>

\* The setter with the engine assigned last: a setter that raises keeps the old
\* engine reference.
RebindEngineLast(newFaceEngine, failAt) ==
    /\ constructed = "yes"
    /\ ops < MaxOps
    /\ failAt \in FailPoints(newFaceEngine, Len(Slots))
    /\ LET st == SetFaceEngine(Start(attr, nextId), newFaceEngine, failAt)
       IN  /\ ops' = ops + 1
           /\ faceEngine' = IF st.exc = NoExc THEN newFaceEngine ELSE faceEngine
           /\ attr' = st.attr
           /\ nextId' = st.nextId
           /\ lastOp' = OpRecord("rebind", "-", newFaceEngine, None, <<>>, None, None, st)
           /\ prevOp' = lastOp
           /\ UNCHANGED constructed

\* collection.faceEngine = newFaceEngine
Rebind(newFaceEngine, failAt) ==
    /\ constructed = "yes"
    /\ ops < MaxOps
    /\ failAt \in FailPoints(newFaceEngine, Len(Slots))
    /\ LET st == SetFaceEngine(Start(attr, nextId), newFaceEngine, failAt)
       IN  /\ ops' = ops + 1
           /\ faceEngine' = newFaceEngine
           /\ attr' = st.attr
           /\ nextId' = st.nextId
           /\ lastOp' = OpRecord("rebind", "-", newFaceEngine, None, <<>>, None, None, st)
           /\ prevOp' = lastOp
           /\ UNCHANGED constructed

\* The constructor is called once, with any start-list and engine.
DoConstruct ==
    /\ constructed = "no"
    /\ \E start \in StartLists, e \in Engines \cup {NoEngine} :
         \E order \in Orders(start), failAt \in 0..(1 + MaxOps) :
            Construct(start, e, order, failAt)

DoGet ==
    /\ constructed = "yes" /\ ops < MaxOps
    /\ \E tag \in Tags, failAt \in 0..1 : Get(tag, failAt)

DoInitialize ==
    /\ constructed = "yes" /\ ops < MaxOps
    /\ \E estimator \in Tags \cup BadTags, failAt \in 0..1 : Initialize(estimator, failAt)

DoSet ==
    /\ constructed = "yes" /\ ops < MaxOps
    /\ \E tag \in Tags, h \in CallerHandles : Set(tag, h)

DoRemove ==
    /\ constructed = "yes" /\ ops < MaxOps
    /\ \E estimator \in Tags \cup BadTags : Remove(estimator)

DoRebind ==
    /\ constructed = "yes" /\ ops < MaxOps
    /\ \E e \in Engines, failAt \in 0..Len(Slots) : Rebind(e, failAt)

Next ==
    \/ DoConstruct
    \/ DoGet
    \/ DoInitialize
    \/ DoSet
    \/ DoRemove
    \/ DoRebind

Spec == Init /\ [][Next]_vars

\* ---------------------------------------------------------------- properties
\* The slot of a tag and the factory of a tag, as the properties define them.
Slot(tag) == attr[Property(tag).attr]

FactoryOf(tag) == Property(tag).fac

\* How many of the factory calls of an operation were calls of fac.
CallsOf(calls, fac) == Cardinality({i \in 1..Len(calls) : calls[i].fac = fac})

\* An operation on a valid tag that returned.
Returned(o, op) == o.op = op /\ o.tag \in Tags /\ o.exc = NoExc

\* C1: a lazy-get that returns makes no factory call and returns the cached
\* handle when the slot was populated, and makes exactly one call of the tag's
\* factory on the current engine when it was empty; two consecutive lazy-gets
\* of one tag return the identical handle and make at most one call together.
C1_LazyGetIsCached ==
    /\ Returned(lastOp, "get") =>
        /\ lastOp.ret = Slot(lastOp.tag)
        /\ lastOp.ret # None
        /\ lastOp.before # None => lastOp.calls = <<>> /\ lastOp.ret = lastOp.before
        /\ lastOp.before = None =>
              lastOp.calls = <<[eng |-> faceEngine, fac |-> FactoryOf(lastOp.tag), ok |-> TRUE]>>
    /\ (Returned(prevOp, "get") /\ Returned(lastOp, "get") /\ prevOp.tag = lastOp.tag) =>
        /\ lastOp.ret = prevOp.ret
        /\ lastOp.calls = <<>>
        /\ Len(prevOp.calls) + Len(lastOp.calls) <= 1

\* Two consecutive lazy-gets of one tag have returned, the first on an empty slot.
C1_Witness ==
    /\ Returned(prevOp, "get") /\ Returned(lastOp, "get")
    /\ prevOp.tag = lastOp.tag
    /\ prevOp.before = None
    /\ Len(prevOp.calls) = 1

\* C2 (as claimed): rebind with an engine whose factories all succeed completes
\* and leaves every slot that was populated before the call holding a handle
\* made by the new engine's factory for that tag.
C2_RebindRecreatesPopulated ==
    [][(lastOp'.op = "rebind" /\ lastOp'.eng \notin Flaky) =>
          /\ lastOp'.exc = NoExc
          /\ \A t \in Tags :
                Slot(t) # None =>
                    /\ attr'[Property(t).attr].eng = lastOp'.eng
                    /\ attr'[Property(t).attr].fac = FactoryOf(t)]_vars

\* C3 (as claimed, handles installed by set left to the caller): every slot
\* is empty, holds a caller's handle, or holds a handle made by the engine the
\* registry references now.
C3_NoStaleHandle ==
    constructed = "yes" =>
        \A t \in Tags :
            \/ Slot(t) = None
            \/ Slot(t) \in CallerHandles
            \/ Slot(t).eng = faceEngine

\* C4 (as claimed): remove of any of the nine tags succeeds and leaves the slot
\* empty, and a lazy-get that follows makes exactly one factory call and returns
\* the new handle.
C4_RemoveThenGet ==
    /\ (lastOp.op = "remove" /\ lastOp.tag \in Tags) =>
            lastOp.exc = NoExc /\ Slot(lastOp.tag) = None
    /\ (prevOp.op = "remove" /\ prevOp.tag \in Tags
            /\ Returned(lastOp, "get") /\ lastOp.tag = prevOp.tag) =>
            /\ Len(lastOp.calls) = 1
            /\ lastOp.ret # prevOp.before

\* C5 (as claimed): set of any tag succeeds without a factory call, and a
\* lazy-get that follows returns exactly the handle set, without a factory call.
C5_SetThenGet ==
    /\ (lastOp.op = "set" /\ lastOp.tag \in Tags) =>
            lastOp.exc = NoExc /\ lastOp.calls = <<>> /\ Slot(lastOp.tag) = lastOp.arg
    /\ (prevOp.op = "set" /\ lastOp.op = "get" /\ lastOp.tag = prevOp.tag) =>
            lastOp.exc = NoExc /\ lastOp.ret = prevOp.arg /\ lastOp.calls = <<>>

\* C6: initialize of a valid tag calls the tag's factory on the current engine
\* exactly once whether or not the slot is populated, and when the factory
\* returns the slot holds the new handle; after two consecutive initializations
\* of one tag the slot holds the handle of the second, not that of the first.
C6_InitializeAlwaysCreates ==
    /\ (lastOp.op = "init" /\ lastOp.tag \in Tags) =>
        /\ Len(lastOp.calls) = 1
        /\ lastOp.calls[1].eng = faceEngine
        /\ lastOp.calls[1].fac = FactoryOf(lastOp.tag)
        /\ lastOp.exc = NoExc =>
              /\ Slot(lastOp.tag) = Handle(faceEngine, FactoryOf(lastOp.tag), nextId - 1)
              /\ Slot(lastOp.tag) # lastOp.before
    /\ (Returned(prevOp, "init") /\ Returned(lastOp, "init") /\ prevOp.tag = lastOp.tag) =>
        /\ Len(prevOp.calls) + Len(lastOp.calls) = 2
        /\ lastOp.before.id = nextId - 2
        /\ Slot(lastOp.tag).id = nextId - 1

\* Two consecutive initializations of one tag have returned.
C6_Witness ==
    /\ Returned(prevOp, "init") /\ Returned(lastOp, "init")
    /\ prevOp.tag = lastOp.tag
    /\ lastOp.before # None

\* C7 (as claimed): the warper was made by the engine the registry references.
C7_WarperOfCurrentEngine ==
    constructed = "yes" => attr["warper"].eng = faceEngine

\* C8: rebind leaves every empty slot empty, whether it returns or raises, and
\* calls no factory for a tag whose slot was empty.
C8_RebindKeepsEmpty ==
    [][lastOp'.op = "rebind" =>
          \A t \in Tags :
              Slot(t) = None =>
                  /\ attr'[Property(t).attr] = None
                  /\ CallsOf(lastOp'.calls, FactoryOf(t)) = 0]_vars

\* A rebind has made an estimator again while another slot was empty.
C8_Witness ==
    /\ lastOp.op = "rebind"
    /\ \E t \in Tags : CallsOf(lastOp.calls, FactoryOf(t)) = 1 /\ Slot(t).eng = lastOp.eng
    /\ \E t \in Tags : Slot(t) = None

\* C9 (as claimed): initialize and remove of an argument outside the enumeration
\* raise ValueError and change no slot, nor the engine, nor the warper.
C9_BadTagRaisesValueError ==
    [][(lastOp'.op \in {"init", "remove"} /\ lastOp'.tag \notin Tags) =>
          /\ lastOp'.exc = ValueError
          /\ attr' = attr
          /\ faceEngine' = faceEngine]_vars

\* C10: a construction that succeeds has called the warper factory once and
\* the factory of each distinct tag of the start-list once, and nothing else,
\* and exactly the slots of those tags are populated.
C10_ConstructCollapsesDuplicates ==
    (lastOp.op = "construct" /\ constructed = "yes") =>
        LET named == {lastOp.start[i] : i \in 1..Len(lastOp.start)}
        IN  /\ CallsOf(lastOp.calls, "createFaceWarper") = 1
            /\ Len(lastOp.calls) = 1 + Cardinality(named)
            /\ \A t \in Tags :
                  /\ CallsOf(lastOp.calls, FactoryOf(t)) = (IF t \in named THEN 1 ELSE 0)
                  /\ Slot(t) # None <=> t \in named
            /\ \A i \in 1..Len(lastOp.calls) : lastOp.calls[i].eng = faceEngine

\* A construction with a start-list that names one tag twice has succeeded.
C10_Witness ==
    /\ lastOp.op = "construct" /\ constructed = "yes"
    /\ Len(lastOp.start) = 2
    /\ lastOp.start[1] = lastOp.start[2]

\* C11 (as claimed): with an engine whose factories never fail, no lazy-get,
\* initialize, set or remove of one of the nine tags, and no rebind, raises
\* ValueError.
C11_NoValueErrorOnValidCalls ==
    (/\ constructed = "yes"
     /\ faceEngine \notin Flaky
     /\ \/ lastOp.op \in {"get", "init", "set", "remove"} /\ lastOp.tag \in Tags
        \/ lastOp.op = "rebind")
        => lastOp.exc # ValueError

\* C12 (as claimed): the two resolutions are inverse over the nine tags. The
\* tag-to-name resolution of the tag given to remove is the attribute of the
\* tag's slot and resolves back to the tag; the name-to-tag resolution of each
\* attribute the faceEngine setter would resolve in this state (those that are
\* not None) is the tag of that slot, which resolves back to the attribute,
\* and it raises for an attribute that is no estimator slot (the warper).
C12_ResolutionsAreInverse ==
    /\ (lastOp.op = "remove" /\ lastOp.tag \in Tags) =>
          /\ GetAttributeNameByEstimator(lastOp.tag) = Property(lastOp.tag).attr
          /\ GetEstimatorByAttributeName(Property(lastOp.tag).attr) = lastOp.tag
    /\ constructed = "yes" =>
          \A a \in AttrNames :
              attr[a] # None =>
                  IF \E t \in Tags : Property(t).attr = a
                  THEN LET t == CHOOSE t \in Tags : Property(t).attr = a
                       IN  /\ GetEstimatorByAttributeName(a) = t
                           /\ GetAttributeNameByEstimator(t) = a
                  ELSE GetEstimatorByAttributeName(a) = RaisedValueError

\* C13: an operation calls the factory of a tag only if it is a construction
\* with the tag in its start-list, an initialize of the tag, a lazy-get of
\* the tag while its slot is empty, or a rebind while its slot is populated;
\* set and remove call no factory and make no handle, and a construction
\* without a start-list calls only the warper factory and leaves the nine
\* slots empty.
C13_FactoriesCalledOnDemand ==
    [][/\ \A t \in Tags :
            CallsOf(lastOp'.calls, FactoryOf(t)) > 0 =>
                \/ lastOp'.op = "construct"
                      /\ \E i \in 1..Len(lastOp'.start) : lastOp'.start[i] = t
                \/ lastOp'.op = "init" /\ lastOp'.tag = t
                \/ lastOp'.op = "get" /\ lastOp'.tag = t /\ Slot(t) = None
                \/ lastOp'.op = "rebind" /\ Slot(t) # None
       /\ lastOp'.op \in {"set", "remove"} =>
            /\ lastOp'.calls = <<>>
            /\ nextId' = nextId
            /\ \A t \in Tags :
                  attr'[Property(t).attr] \in {None, lastOp'.arg, Slot(t)}
       /\ (lastOp'.op = "construct" /\ lastOp'.start = <<>> /\ constructed' = "yes") =>
            /\ Len(lastOp'.calls) = 1
            /\ lastOp'.calls[1].fac = "createFaceWarper"
            /\ \A t \in Tags : attr'[Property(t).attr] = None]_vars

\* After a construction without a start-list that made only the warper, a
\* lazy-get on an empty slot has made the estimator.
C13_Witness ==
    /\ prevOp.op = "construct" /\ prevOp.start = <<>>
    /\ Len(prevOp.calls) = 1
    /\ Returned(lastOp, "get")
    /\ lastOp.before = None
    /\ CallsOf(lastOp.calls, FactoryOf(lastOp.tag)) = 1

\* A factory call of the operation raised.
FactoryRaised(o) == \E i \in 1..Len(o.calls) : ~o.calls[i].ok

\* C14: a lazy-get or initialize whose factory raises ends with the engine's
\* error after that one call and changes nothing: no slot, nor the engine, nor
\* the warper, and no handle is made; a lazy-get of the same tag that follows
\* a lazy-get that raised calls the factory again.
C14_FactoryErrorPropagates ==
    [][/\ (lastOp'.op \in {"get", "init"} /\ FactoryRaised(lastOp')) =>
            /\ lastOp'.exc = EngineError
            /\ Len(lastOp'.calls) = 1
            /\ lastOp'.ret = None
            /\ attr' = attr
            /\ faceEngine' = faceEngine
            /\ nextId' = nextId
       /\ (lastOp'.op \in {"get", "init"} /\ lastOp'.tag \in Tags /\ ~FactoryRaised(lastOp')) =>
            lastOp'.exc = NoExc
       /\ (lastOp.op = "get" /\ lastOp.exc = EngineError
              /\ lastOp'.op = "get" /\ lastOp'.tag = lastOp.tag) =>
            /\ Slot(lastOp.tag) = None
            /\ Len(lastOp'.calls) = 1
            /\ lastOp'.calls[1].fac = FactoryOf(lastOp.tag)]_vars

\* A lazy-get whose factory raised was followed by a lazy-get of the same tag
\* that called the factory again and returned its handle.
C14_Witness ==
    /\ prevOp.op = "get" /\ prevOp.exc = EngineError
    /\ Returned(lastOp, "get") /\ lastOp.tag = prevOp.tag
    /\ Len(lastOp.calls) = 1

\* An initialize whose factory raised has left a populated slot as it was.
C14_WitnessInit ==
    /\ lastOp.op = "init" /\ lastOp.exc = EngineError
    /\ lastOp.before # None
    /\ Slot(lastOp.tag) = lastOp.before

\* C15: a lazy-get, initialize, set or remove of one of the nine tags changes
\* at most the slot of that tag: the other eight slots, the warper and the
\* engine stay as they were, whether the operation returns or raises.
C15_PerTagOperationsAreLocal ==
    [][(lastOp'.op \in {"get", "init", "set", "remove"} /\ lastOp'.tag \in Tags) =>
          /\ \A a \in AttrNames \ {Property(lastOp'.tag).attr} : attr'[a] = attr[a]
          /\ attr'["warper"] = attr["warper"]
          /\ faceEngine' = faceEngine
          /\ constructed' = constructed]_vars

\* An initialize has filled the slot of its tag while another slot was populated.
C15_Witness ==
    /\ Returned(lastOp, "init")
    /\ Slot(lastOp.tag) # lastOp.before
    /\ \E t \in Tags \ {lastOp.tag} : Slot(t) # None

\* C16: after a rebind, whether it returned or raised, the registry references
\* the new engine and every factory call the rebind made was a call of the new
\* engine; a lazy-get or initialize that follows calls the new engine's factory
\* and the handle it stores is the new engine's.
C16_EngineReplacedFirst ==
    /\ lastOp.op = "rebind" =>
        /\ faceEngine = lastOp.eng
        /\ \A i \in 1..Len(lastOp.calls) : lastOp.calls[i].eng = lastOp.eng
    /\ (prevOp.op = "rebind" /\ lastOp.op \in {"get", "init"} /\ lastOp.tag \in Tags) =>
        /\ faceEngine = prevOp.eng
        /\ \A i \in 1..Len(lastOp.calls) : lastOp.calls[i].eng = prevOp.eng
        /\ (lastOp.exc = NoExc /\ lastOp.calls # <<>>) => Slot(lastOp.tag).eng = prevOp.eng

\* A rebind to another engine raised, and the lazy-get on an empty slot that
\* followed got its handle from the new engine.
C16_Witness ==
    /\ prevOp.op = "rebind" /\ prevOp.exc # NoExc
    /\ attr["warper"].eng # prevOp.eng
    /\ Returned(lastOp, "get")
    /\ lastOp.before = None
    /\ lastOp.ret.eng = prevOp.eng

\* C17: once the construction has succeeded the warper slot is never empty,
\* whatever operations followed and however they ended, and the construction
\* made the warper before it initialized any estimator.
C17_WarperAlwaysPopulated ==
    constructed = "yes" =>
        /\ attr["warper"] # None
        /\ attr["warper"].fac = "createFaceWarper"
        /\ lastOp.op = "construct" =>
              /\ lastOp.calls # <<>>
              /\ lastOp.calls[1].fac = "createFaceWarper"
              /\ \A t \in Tags : Slot(t) # None => Slot(t).id > attr["warper"].id

\* A rebind on a registry with a populated slot has raised and the warper is
\* still there.
C17_Witness ==
    /\ constructed = "yes"
    /\ lastOp.op = "rebind" /\ lastOp.exc # NoExc
    /\ \E t \in Tags : Slot(t) # None
    /\ attr["warper"] # None

====
